---- MODULE Spec2Model ----
(***************************************************************************)
(* Model of runtipi's system lifecycle service (SystemServiceClass:          *)
(* getVersion, update, restart, status) and of the session part of the auth *)
(* service                                                                  *)
(* (AuthServiceClass: login, register, logout, refreshToken), together with *)
(* the collaborators they use: the TTL cache (TipiCache), the configuration *)
(* (getConfig/setConfig), the event dispatcher and the external runner, and *)
(* of the application lifecycle over the app_status_enum of the schema.      *)
(*                                                                          *)
(* Strings that the code parses or rewrites (version strings, release       *)
(* names, user ids) are sequences of one-character strings.                 *)
(***************************************************************************)
EXTENDS Integers, Sequences, FiniteSets, TLC

VARIABLES
  nodeEnv,        \* getConfig().NODE_ENV
  currentVersion, \* getConfig().version
  status,         \* getConfig().status
  cache,          \* TipiCache: key -> [present, val, ttl]
  events,         \* events published to the dispatcher and not yet settled by the runner
  pc,             \* per request: position in its handler
  op,             \* per request: the operation it runs
  arg,            \* per request: the session argument (auth operations)
  version,        \* per request: getVersion's local `version`
  gv,             \* per request: the value getVersion returned
  ret,            \* per request: outcome of the finished operation
  fresh,          \* per request: it was made while the status was RUNNING and the
                  \* runner has not settled anything since
  nextSession,    \* number of session identifiers v4() has produced
  userId,         \* per request: refreshToken's local `userId`
  tok,            \* per request: the payload of the token the operation returned
  rearmed,        \* per session: seconds since refreshToken re-armed it, capped at
                  \* GRACE_TTL; -1 if it never did or the entry was deleted since
  appStatus,      \* per application: the status of its record, or NoRecord
  appEvents,      \* application events published and not yet settled by the runner
  appArg,         \* per request: the application and the action it asks for
  userCount,      \* number of rows of the user table; their ids are 1..userCount
  loggedOut,      \* the sessions for which a logout has returned
  owner           \* per session: the user whose login or registration started the
                  \* chain of refreshes the session belongs to; 0 before it is issued

vars == <<nodeEnv, currentVersion, status, cache, events, pc, op, arg, version, gv, ret,
          fresh, nextSession, userId, tok, rearmed, appStatus, appEvents, appArg,
          userCount, loggedOut, owner>>

-----------------------------------------------------------------------------
(* Bounds of the model *)

\* published events the runner has not settled yet
MaxEvents == 2
\* session identifiers
MaxSessions == 3

(* Program constants *)

VERSION_TTL == 3600
GRACE_TTL == 6

\* request slots: two requests can be in flight at the same time
Procs == {1, 2}

-----------------------------------------------------------------------------
(* Optional strings: JavaScript's `string | null | undefined` *)

Undefined == [some |-> FALSE, str |-> <<>>]
Some(s) == [some |-> TRUE, str |-> s]
\* !x for an optional string: null, undefined and '' are falsy
Falsy(x) == ~x.some \/ x.str = <<>>

-----------------------------------------------------------------------------
(* String.prototype.replace('v', ''): removes the FIRST occurrence of 'v' *)

RECURSIVE ReplaceV(_)
ReplaceV(s) ==
  IF s = <<>> THEN <<>>
  ELSE IF Head(s) = "v" THEN Tail(s)
  ELSE <<Head(s)>> \o ReplaceV(Tail(s))

\* version?.replace('v', '') on an optional string
OptReplaceV(x) == IF x.some THEN Some(ReplaceV(x.str)) ELSE Undefined

-----------------------------------------------------------------------------
(* semver: parsing and comparison of MAJOR.MINOR.PATCH, optional leading v *)

DigitChars == <<"0", "1", "2", "3", "4", "5", "6", "7", "8", "9">>

IsDigit(c) == \E i \in 1..10 : DigitChars[i] = c

DigitVal(c) == (CHOOSE i \in 1..10 : DigitChars[i] = c) - 1

\* a numeric identifier: digits, no leading zero
IsNumeric(s) ==
  /\ Len(s) > 0
  /\ \A i \in 1..Len(s) : IsDigit(s[i])
  /\ (Len(s) > 1 => s[1] # "0")

RECURSIVE NumVal(_)
NumVal(s) ==
  IF s = <<>> THEN 0
  ELSE 10 * NumVal(SubSeq(s, 1, Len(s) - 1)) + DigitVal(s[Len(s)])

StripV(s) == IF s # <<>> /\ Head(s) = "v" THEN Tail(s) ELSE s

Dots(s) == {i \in 1..Len(s) : s[i] = "."}

\* new SemVer(s) succeeds
SemverValid(s) ==
  LET t == StripV(s) IN
  /\ Cardinality(Dots(t)) = 2
  /\ LET d1 == CHOOSE i \in Dots(t) : \A j \in Dots(t) : i <= j
         d2 == CHOOSE i \in Dots(t) : \A j \in Dots(t) : j <= i
     IN /\ IsNumeric(SubSeq(t, 1, d1 - 1))
        /\ IsNumeric(SubSeq(t, d1 + 1, d2 - 1))
        /\ IsNumeric(SubSeq(t, d2 + 1, Len(t)))

\* new SemVer(s): <<major, minor, patch>>
SemverParse(s) ==
  LET t == StripV(s)
      d1 == CHOOSE i \in Dots(t) : \A j \in Dots(t) : i <= j
      d2 == CHOOSE i \in Dots(t) : \A j \in Dots(t) : j <= i
  IN <<NumVal(SubSeq(t, 1, d1 - 1)),
       NumVal(SubSeq(t, d1 + 1, d2 - 1)),
       NumVal(SubSeq(t, d2 + 1, Len(t)))>>

\* semver.compare(a, b) > 0
SemverGt(a, b) ==
  LET x == SemverParse(a)
      y == SemverParse(b)
  IN \/ x[1] > y[1]
     \/ x[1] = y[1] /\ x[2] > y[2]
     \/ x[1] = y[1] /\ x[2] = y[2] /\ x[3] > y[3]

\* semver.eq(a, b)
SemverEq(a, b) == SemverParse(a) = SemverParse(b)

\* semver.major(a)
SemverMajor(a) == SemverParse(a)[1]

-----------------------------------------------------------------------------
(* Inputs *)

\* values of getConfig().version
CurrentVersions ==
  { <<"1", ".", "2", ".", "0">>,
    <<"2", ".", "0", ".", "0">> }

\* values of the `name` field of the latest release
ReleaseNames ==
  { <<"v", "1", ".", "0", ".", "0">>,
    <<"v", "1", ".", "2", ".", "0">>,
    <<"1", ".", "1", "0", ".", "0">>,
    <<"v", "2", ".", "0", ".", "0">>,
    <<>> }

-----------------------------------------------------------------------------
(* TipiCache: get / set with TTL / del *)

\* keys are numbers: 0 stands for the key 'latestVersion', 1, 2, ... for the
\* session identifiers v4() produces
LatestVersionKey == 0

SessionIds == 1..MaxSessions

\* a session identifier that v4() never produced
Forged == MaxSessions + 1

Keys == {LatestVersionKey, Forged} \cup SessionIds

\* ttl of an entry set without a TTL
NoExpiry == -1

AbsentEntry == [present |-> FALSE, val |-> <<>>, ttl |-> NoExpiry]

\* cache.get(key): the value, or null
CacheGet(c, k) == IF c[k].present THEN Some(c[k].val) ELSE Undefined

\* cache.set(key, value, ttl)
CacheSetTtl(c, k, v, ttl) ==
  [c EXCEPT ![k] = [present |-> TRUE, val |-> v, ttl |-> ttl]]

\* cache.set(key, value)
CacheSet(c, k, v) ==
  [c EXCEPT ![k] = [present |-> TRUE, val |-> v, ttl |-> NoExpiry]]

\* cache.del(key)
CacheDel(c, k) == [c EXCEPT ![k] = AbsentEntry]

\* d seconds pass: the backing store drops every entry whose TTL has elapsed
Age(c, d) ==
  [k \in Keys |->
     IF ~c[k].present \/ c[k].ttl = NoExpiry THEN c[k]
     ELSE IF c[k].ttl <= d THEN AbsentEntry
     ELSE [c[k] EXCEPT !.ttl = c[k].ttl - d]]

-----------------------------------------------------------------------------
(* Request bookkeeping *)

\* a handler is inside a synchronous section: no other handler runs meanwhile
Busy == \E p \in Procs : pc[p] = "publish"

NoGv == [current |-> <<>>, latest |-> Undefined]

\* `session` undefined
NoSession == 0

\* values a JWT payload's `id` takes: a number (user.id) or a string (userId)
JNum(n) == [type |-> "number", num |-> n, str |-> <<>>]
JStr(x) == [type |-> "string", num |-> 0, str |-> x]

NoToken == [id |-> JNum(0), session |-> NoSession]

Finish(p, outcome) ==
  /\ pc' = [pc EXCEPT ![p] = "done"]
  /\ ret' = [ret EXCEPT ![p] = outcome]

config == <<nodeEnv, currentVersion>>

\* the application records, their events and the requests about them
appVars == <<appStatus, appEvents, appArg>>

\* what the system lifecycle service never touches
authVars == <<arg, nextSession, userId, tok, rearmed, userCount, loggedOut, owner,
              appVars>>

\* what the auth service never touches
systemVars == <<nodeEnv, currentVersion, status, events, version, gv, fresh, appVars>>

-----------------------------------------------------------------------------
(* SystemServiceClass.getVersion *)

\* GvCatch with the failure cached as an empty latestVersion
GvCatch_CachesFailure(p) ==
  /\ gv' = [gv EXCEPT ![p] = [current |-> currentVersion, latest |-> Undefined]]
  /\ version' = [version EXCEPT ![p] = Undefined]
  /\ cache' = CacheSetTtl(cache, LatestVersionKey, <<>>, VERSION_TTL)

\* catch (e) { Logger.error(e); return { current: getConfig().version, latest: undefined } }
GvCatch(p) ==
  /\ gv' = [gv EXCEPT ![p] = [current |-> currentVersion, latest |-> Undefined]]
  /\ version' = [version EXCEPT ![p] = Undefined]
  /\ UNCHANGED cache

\* where control goes when getVersion returns: to its caller
GvReturn(p) ==
  IF op[p] = "update"
  THEN pc' = [pc EXCEPT ![p] = "upd_check"] /\ UNCHANGED ret
  ELSE Finish(p, "ok")

\* a caller asks for the versions: getVersion runs up to `await this.cache.get`
RequestGetVersion(p) ==
  /\ pc[p] = "idle" /\ ~Busy
  /\ pc' = [pc EXCEPT ![p] = "gv_get"]
  /\ op' = [op EXCEPT ![p] = "getVersion"]
  /\ UNCHANGED <<config, status, cache, events, version, gv, ret, fresh, authVars>>

\* let version = await this.cache.get('latestVersion');
\* if (!version) { ... } return { current, latest: version?.replace('v', '') }
GvCacheGet(p) ==
  /\ pc[p] = "gv_get" /\ ~Busy
  /\ \/ \* the cache access throws
        /\ GvCatch(p)
        /\ GvReturn(p)
     \/ LET v == CacheGet(cache, LatestVersionKey) IN
        IF Falsy(v)
        THEN /\ version' = [version EXCEPT ![p] = v]
             /\ pc' = [pc EXCEPT ![p] = "gv_fetch"]
             /\ UNCHANGED <<gv, ret, cache>>
        ELSE /\ version' = [version EXCEPT ![p] = Undefined]
             /\ gv' = [gv EXCEPT ![p] =
                         [current |-> currentVersion, latest |-> OptReplaceV(v)]]
             /\ GvReturn(p)
             /\ UNCHANGED cache
  /\ UNCHANGED <<config, status, events, op, fresh, authVars>>

\* const data = await fetch(...); const release = await data.json();
\* version = release.name.replace('v', '')
GvFetch(p) ==
  /\ pc[p] = "gv_fetch" /\ ~Busy
  /\ \/ \* the request fails, the body is no JSON, or the release has no name
        /\ GvCatch(p)
        /\ GvReturn(p)
     \/ \E name \in ReleaseNames :
          /\ version' = [version EXCEPT ![p] = Some(ReplaceV(name))]
          /\ pc' = [pc EXCEPT ![p] = "gv_set"]
          /\ UNCHANGED <<gv, ret, cache>>
  /\ UNCHANGED <<config, status, events, op, fresh, authVars>>

\* await this.cache.set('latestVersion', version?.replace('v', '') || '', 60 * 60);
\* return { current: getConfig().version, latest: version?.replace('v', '') }
GvCacheSet(p) ==
  /\ pc[p] = "gv_set" /\ ~Busy
  /\ \/ \* the cache access throws
        /\ GvCatch(p)
        /\ GvReturn(p)
     \/ /\ cache' = CacheSetTtl(cache, LatestVersionKey, ReplaceV(version[p].str), VERSION_TTL)
        /\ gv' = [gv EXCEPT ![p] =
                    [current |-> currentVersion, latest |-> OptReplaceV(version[p])]]
        /\ version' = [version EXCEPT ![p] = Undefined]
        /\ GvReturn(p)
  /\ UNCHANGED <<config, status, events, op, fresh, authVars>>

-----------------------------------------------------------------------------
(* SystemServiceClass.update *)

\* UpdateOutcome with the major versions compared before the downgrade check
UpdateOutcome_MajorFirst(env, current, latest) ==
  IF env = "development" THEN "EnvironmentRestricted"
  ELSE IF Falsy(latest) THEN "VersionUnavailable"
  ELSE IF ~SemverValid(current) \/ ~SemverValid(latest.str) THEN "InvalidVersion"
  ELSE IF SemverMajor(current) # SemverMajor(latest.str) THEN "MajorVersionMismatch"
  ELSE IF SemverGt(current, latest.str) THEN "DowngradeRejected"
  ELSE IF SemverEq(current, latest.str) THEN "AlreadyUpToDate"
  ELSE "ok"

\* UpdateOutcome with the environment checked after the latest version
UpdateOutcome_LatestFirst(env, current, latest) ==
  IF Falsy(latest) THEN "VersionUnavailable"
  ELSE IF env = "development" THEN "EnvironmentRestricted"
  ELSE IF ~SemverValid(current) \/ ~SemverValid(latest.str) THEN "InvalidVersion"
  ELSE IF SemverGt(current, latest.str) THEN "DowngradeRejected"
  ELSE IF SemverEq(current, latest.str) THEN "AlreadyUpToDate"
  ELSE IF SemverMajor(current) # SemverMajor(latest.str) THEN "MajorVersionMismatch"
  ELSE "ok"

\* UpdateOutcome without the `if (!latest)` guard: semver gets undefined or ''
UpdateOutcome_NoLatestCheck(env, current, latest) ==
  IF env = "development" THEN "EnvironmentRestricted"
  ELSE IF Falsy(latest) \/ ~SemverValid(current) \/ ~SemverValid(latest.str)
    THEN "InvalidVersion"
  ELSE IF SemverGt(current, latest.str) THEN "DowngradeRejected"
  ELSE IF SemverEq(current, latest.str) THEN "AlreadyUpToDate"
  ELSE IF SemverMajor(current) # SemverMajor(latest.str) THEN "MajorVersionMismatch"
  ELSE "ok"

\* the checks of update, in the order the code makes them; semver throws a
\* TypeError on a string that is no version
UpdateOutcome(env, current, latest) ==
  IF env = "development" THEN "EnvironmentRestricted"
  ELSE IF Falsy(latest) THEN "VersionUnavailable"
  ELSE IF ~SemverValid(current) \/ ~SemverValid(latest.str) THEN "InvalidVersion"
  ELSE IF SemverGt(current, latest.str) THEN "DowngradeRejected"
  ELSE IF SemverEq(current, latest.str) THEN "AlreadyUpToDate"
  ELSE IF SemverMajor(current) # SemverMajor(latest.str) THEN "MajorVersionMismatch"
  ELSE "ok"

\* a caller requests an update: update runs up to `await this.getVersion()`,
\* which runs up to `await this.cache.get`
RequestUpdate(p) ==
  /\ pc[p] = "idle" /\ ~Busy
  /\ pc' = [pc EXCEPT ![p] = "gv_get"]
  /\ op' = [op EXCEPT ![p] = "update"]
  /\ fresh' = [fresh EXCEPT ![p] = (status = "RUNNING")]
  /\ UNCHANGED <<config, status, cache, events, version, gv, ret, authVars>>

\* the part of update after the await: the checks, then setConfig('status', 'UPDATING')
UpdateCheck(p) ==
  /\ pc[p] = "upd_check" /\ ~Busy
  /\ Len(events) < MaxEvents
  /\ gv' = [gv EXCEPT ![p] = NoGv]
  /\ LET outcome == UpdateOutcome(nodeEnv, gv[p].current, gv[p].latest) IN
     IF outcome = "ok"
     THEN /\ status' = "UPDATING"
          /\ pc' = [pc EXCEPT ![p] = "publish"]
          /\ UNCHANGED ret
     ELSE /\ Finish(p, outcome)
          /\ UNCHANGED status
  /\ UNCHANGED <<config, cache, events, op, version, fresh, authVars>>

-----------------------------------------------------------------------------
(* SystemServiceClass.restart *)

RestartOutcome(env) ==
  IF env = "development" THEN "EnvironmentRestricted" ELSE "ok"

\* RequestRestart with RUNNING written in place of RESTARTING
RequestRestart_WritesRunning(p) ==
  /\ pc[p] = "idle" /\ ~Busy
  /\ Len(events) < MaxEvents
  /\ op' = [op EXCEPT ![p] = "restart"]
  /\ fresh' = [fresh EXCEPT ![p] = (status = "RUNNING")]
  /\ IF RestartOutcome(nodeEnv) = "ok"
     THEN /\ status' = "RUNNING"
          /\ pc' = [pc EXCEPT ![p] = "publish"]
          /\ UNCHANGED ret
     ELSE /\ Finish(p, RestartOutcome(nodeEnv))
          /\ UNCHANGED status
  /\ UNCHANGED <<config, cache, events, version, gv, authVars>>

\* a caller requests a restart: restart has no await; it runs to the dispatch
RequestRestart(p) ==
  /\ pc[p] = "idle" /\ ~Busy
  /\ Len(events) < MaxEvents
  /\ op' = [op EXCEPT ![p] = "restart"]
  /\ fresh' = [fresh EXCEPT ![p] = (status = "RUNNING")]
  /\ IF RestartOutcome(nodeEnv) = "ok"
     THEN /\ status' = "RESTARTING"
          /\ pc' = [pc EXCEPT ![p] = "publish"]
          /\ UNCHANGED ret
     ELSE /\ Finish(p, RestartOutcome(nodeEnv))
          /\ UNCHANGED status
  /\ UNCHANGED <<config, cache, events, version, gv, authVars>>

-----------------------------------------------------------------------------
(* SystemServiceClass.status *)

\* type SystemStatus
SYSTEM_STATUS == {"RUNNING", "UPDATING", "RESTARTING"}

\* status(): ({ status: getConfig().status })
RequestStatus(p) ==
  /\ pc[p] = "idle" /\ ~Busy
  /\ op' = [op EXCEPT ![p] = "status"]
  /\ Finish(p, status)
  /\ UNCHANGED <<config, status, cache, events, version, gv, fresh, authVars>>

-----------------------------------------------------------------------------
(* EventDispatcher.dispatchEventAsync and the external runner *)

\* Publish with the event sent twice
Publish_Twice(p) ==
  /\ pc[p] = "publish"
  /\ events' = events \o <<op[p], op[p]>>
  /\ Finish(p, "ok")
  /\ UNCHANGED <<config, status, cache, op, version, gv, fresh, authVars>>

\* this.dispatcher.dispatchEventAsync('update' | 'restart'); return true
Publish(p) ==
  /\ pc[p] = "publish"
  /\ events' = Append(events, op[p])
  /\ Finish(p, "ok")
  /\ UNCHANGED <<config, status, cache, op, version, gv, fresh, authVars>>

\* the runner finishes the oldest published event and writes the settled status
Settle ==
  /\ events # <<>>
  /\ events' = Tail(events)
  /\ status' = "RUNNING"
  /\ fresh' = [p \in Procs |-> FALSE]
  /\ UNCHANGED <<config, cache, pc, op, version, gv, ret, authVars>>

-----------------------------------------------------------------------------
(* AuthServiceClass: login, register, logout, refreshToken.  They have no   *)
(* try/catch; the cache calls they await are taken to be acknowledged.      *)

\* ids the user table hands out
Users == {1, 2}

\* the users in the database
DbUsers == 1..userCount

\* Number.prototype.toString()
RECURSIVE NumToStr(_)
NumToStr(n) ==
  IF n < 10 THEN <<DigitChars[n + 1]>>
  ELSE NumToStr(n \div 10) \o <<DigitChars[(n % 10) + 1]>>

\* the session identifiers handed out so far
Issued == 1..nextSession

\* the sessions a client holds: their token has been returned
Returned ==
  {s \in Issued : \A q \in Procs :
     ~(pc[q] \in {"li_set", "rg_set", "rf_new"} /\ tok[q].session = s)}

\* login: the user is looked up and the password verified; then
\* const session = v4(); const token = jwt.sign({ id: user.id, session }, ...)
\* and login runs up to `await TipiCache.set`
RequestLogin(p) ==
  /\ pc[p] = "idle"
  /\ op' = [op EXCEPT ![p] = "login"]
  /\ \/ \E e \in {"User not found", "Wrong password"} :
          /\ Finish(p, e)
          /\ UNCHANGED <<tok, nextSession, owner>>
     \/ \E u \in DbUsers :
          /\ nextSession < MaxSessions
          /\ nextSession' = nextSession + 1
          /\ tok' = [tok EXCEPT ![p] = [id |-> JNum(u), session |-> nextSession + 1]]
          /\ owner' = [owner EXCEPT ![nextSession + 1] = u]
          /\ pc' = [pc EXCEPT ![p] = "li_set"]
          /\ UNCHANGED ret
  /\ UNCHANGED <<systemVars, userCount, loggedOut, cache, arg, userId, rearmed>>

\* LoginCacheSet with the session stored as the value
LoginCacheSet_StoresSession(p) ==
  /\ pc[p] = "li_set"
  /\ cache' = CacheSet(cache, tok[p].session, NumToStr(tok[p].session))
  /\ Finish(p, "ok")
  /\ UNCHANGED <<systemVars, userCount, loggedOut, owner, op, arg, nextSession, userId, tok,
                 rearmed>>

\* await TipiCache.set(session, user.id.toString()); return { token }
LoginCacheSet(p) ==
  /\ pc[p] = "li_set"
  /\ cache' = CacheSet(cache, tok[p].session, NumToStr(tok[p].id.num))
  /\ Finish(p, "ok")
  /\ UNCHANGED <<systemVars, userCount, loggedOut, owner, op, arg, nextSession, userId, tok,
                 rearmed>>

\* register: it runs up to `await this.prisma.user.findFirst`
RequestRegister(p) ==
  /\ pc[p] = "idle"
  /\ op' = [op EXCEPT ![p] = "register"]
  /\ pc' = [pc EXCEPT ![p] = "rg_first"]
  /\ UNCHANGED <<systemVars, userCount, loggedOut, owner, cache, arg, ret, nextSession, userId, tok,
                 rearmed>>

\* if (registeredUser) throw ...; the checks of username and password; then
\* register runs up to the lookup of the username
RegisterFindFirst(p) ==
  /\ pc[p] = "rg_first"
  /\ IF userCount > 0
     THEN Finish(p, "There is already an admin user")
     ELSE \/ \E e \in {"Missing email or password", "Invalid username"} : Finish(p, e)
          \/ pc' = [pc EXCEPT ![p] = "rg_create"] /\ UNCHANGED ret
  /\ UNCHANGED <<systemVars, userCount, loggedOut, owner, cache, op, arg, nextSession, userId, tok,
                 rearmed>>

\* the username is taken (`User already exists`, or the unique constraint of
\* the table refuses the row), or the user is created; then
\* const session = v4(); const token = jwt.sign({ id: newUser.id, session }, ...)
\* and register runs up to `await TipiCache.set`
RegisterCreate(p) ==
  /\ pc[p] = "rg_create"
  /\ \/ /\ userCount > 0
        /\ Finish(p, "User already exists")
        /\ UNCHANGED <<userCount, nextSession, tok, owner>>
     \/ /\ userCount + 1 \in Users
        /\ nextSession < MaxSessions
        /\ userCount' = userCount + 1
        /\ nextSession' = nextSession + 1
        /\ tok' = [tok EXCEPT ![p] = [id |-> JNum(userCount + 1),
                                      session |-> nextSession + 1]]
        /\ owner' = [owner EXCEPT ![nextSession + 1] = userCount + 1]
        /\ pc' = [pc EXCEPT ![p] = "rg_set"]
        /\ UNCHANGED ret
  /\ UNCHANGED <<systemVars, loggedOut, cache, op, arg, userId, rearmed>>

\* await TipiCache.set(session, newUser.id.toString()); return { token }
RegisterCacheSet(p) ==
  /\ pc[p] = "rg_set"
  /\ cache' = CacheSet(cache, tok[p].session, NumToStr(tok[p].id.num))
  /\ Finish(p, "ok")
  /\ UNCHANGED <<systemVars, userCount, loggedOut, owner, op, arg, nextSession, userId, tok,
                 rearmed>>

\* logout(session): if (session) { await TipiCache.del(session) } return true
RequestLogout(p) ==
  /\ pc[p] = "idle"
  /\ op' = [op EXCEPT ![p] = "logout"]
  /\ \E s \in Returned \cup {NoSession} :
       /\ arg' = [arg EXCEPT ![p] = s]
       /\ IF s = NoSession
          THEN Finish(p, "ok")
          ELSE pc' = [pc EXCEPT ![p] = "lo_del"] /\ UNCHANGED ret
  /\ UNCHANGED <<systemVars, userCount, loggedOut, owner, cache, nextSession, userId, tok,
                 rearmed>>

\* await TipiCache.del(session); return true
LogoutCacheDel(p) ==
  /\ pc[p] = "lo_del"
  /\ cache' = CacheDel(cache, arg[p])
  /\ rearmed' = [rearmed EXCEPT ![arg[p]] = -1]
  /\ loggedOut' = loggedOut \cup {arg[p]}
  /\ Finish(p, "ok")
  /\ UNCHANGED <<systemVars, userCount, owner, op, arg, nextSession, userId, tok>>

\* refreshToken(session): if (!session) return null; else it runs up to
\* `await TipiCache.get(session)`
RequestRefresh(p) ==
  /\ pc[p] = "idle"
  /\ op' = [op EXCEPT ![p] = "refreshToken"]
  /\ \E s \in Returned \cup {NoSession, Forged} :
       /\ arg' = [arg EXCEPT ![p] = s]
       /\ IF s = NoSession
          THEN Finish(p, "null")
          ELSE pc' = [pc EXCEPT ![p] = "rf_get"] /\ UNCHANGED ret
  /\ UNCHANGED <<systemVars, userCount, loggedOut, owner, cache, nextSession, userId, tok,
                 rearmed>>

\* RefreshCacheGet without `if (!userId) return null`
RefreshCacheGet_NoCheck(p) ==
  /\ pc[p] = "rf_get"
  /\ userId' = [userId EXCEPT ![p] = CacheGet(cache, arg[p])]
  /\ pc' = [pc EXCEPT ![p] = "rf_rearm"]
  /\ UNCHANGED <<systemVars, userCount, loggedOut, owner, cache, op, arg, ret, nextSession,
                 tok, rearmed>>

\* const userId = await TipiCache.get(session); if (!userId) return null;
RefreshCacheGet(p) ==
  /\ pc[p] = "rf_get"
  /\ LET u == CacheGet(cache, arg[p]) IN
     IF Falsy(u)
     THEN Finish(p, "null") /\ UNCHANGED userId
     ELSE /\ userId' = [userId EXCEPT ![p] = u]
          /\ pc' = [pc EXCEPT ![p] = "rf_rearm"]
          /\ UNCHANGED ret
  /\ UNCHANGED <<systemVars, userCount, loggedOut, owner, cache, op, arg, nextSession, tok,
                 rearmed>>

\* Rearm with the TTL forgotten
Rearm_NoTtl(c, s, u) == CacheSet(c, s, u)

\* Rearm that deletes the old session at once
Rearm_Delete(c, s, u) == CacheDel(c, s)

\* the write refreshToken makes to the old session:
\* await TipiCache.set(session, userId, 6)
Rearm(c, s, u) == CacheSetTtl(c, s, u, GRACE_TTL)

\* await TipiCache.set(session, userId, 6); const newSession = v4();
\* const token = jwt.sign({ id: userId, session: newSession }, ...)
RefreshRearm(p) ==
  /\ pc[p] = "rf_rearm"
  /\ nextSession < MaxSessions
  /\ cache' = Rearm(cache, arg[p], userId[p].str)
  /\ rearmed' = [rearmed EXCEPT ![arg[p]] = 0]
  /\ nextSession' = nextSession + 1
  /\ tok' = [tok EXCEPT ![p] = [id |-> JStr(userId[p].str), session |-> nextSession + 1]]
  /\ owner' = [owner EXCEPT ![nextSession + 1] = owner[arg[p]]]
  /\ pc' = [pc EXCEPT ![p] = "rf_new"]
  /\ UNCHANGED <<systemVars, userCount, loggedOut, op, arg, ret, userId>>

\* await TipiCache.set(newSession, userId); return { token }
RefreshCacheSet(p) ==
  /\ pc[p] = "rf_new"
  /\ cache' = CacheSet(cache, tok[p].session, userId[p].str)
  /\ Finish(p, "ok")
  /\ UNCHANGED <<systemVars, userCount, loggedOut, owner, op, arg, nextSession, userId, tok,
                 rearmed>>

-----------------------------------------------------------------------------
(* Application lifecycle: the records of model App and the transition table *)
(* over app_status_enum.  A request reads the record, checks the required   *)
(* state and writes the new status in one critical section keyed by the     *)
(* application; the event is published after the write.                     *)

\* application identifiers
Apps == {"calculator", "notes"}

NoApp == "-"

\* the status read for an identifier that has no record
NoRecord == "none"

\* enum app_status_enum
AppStatuses ==
  {"running", "stopped", "installing", "uninstalling", "stopping", "starting", "missing",
   "updating"}

AppActions == {"install", "start", "stop", "uninstall", "update"}

NoAppArg == [app |-> NoApp, action |-> "none"]

\* RequiredStates with `stop` also accepted while the application is stopping
RequiredStates_StopAgain(action) ==
  CASE action = "install"   -> {"missing", NoRecord}
    [] action = "start"     -> {"stopped"}
    [] action = "stop"      -> {"running", "stopping"}
    [] action = "uninstall" -> {"stopped", "missing"}
    [] action = "update"    -> {"stopped", "running"}

\* RequiredStates with `uninstall` accepted in every status of a record
RequiredStates_UninstallAny(action) ==
  CASE action = "install"   -> {"missing", NoRecord}
    [] action = "start"     -> {"stopped"}
    [] action = "stop"      -> {"running"}
    [] action = "uninstall" -> AppStatuses
    [] action = "update"    -> {"stopped", "running"}

\* the statuses in which an action is accepted
RequiredStates(action) ==
  CASE action = "install"   -> {"missing", NoRecord}
    [] action = "start"     -> {"stopped"}
    [] action = "stop"      -> {"running"}
    [] action = "uninstall" -> {"stopped", "missing"}
    [] action = "update"    -> {"stopped", "running"}

\* the status an accepted action writes
NewState(action) ==
  CASE action = "install"   -> "installing"
    [] action = "start"     -> "starting"
    [] action = "stop"      -> "stopping"
    [] action = "uninstall" -> "uninstalling"
    [] action = "update"    -> "updating"

AppOutcome(st, action) ==
  IF st \in RequiredStates(action) THEN "ok"
  ELSE IF st = NoRecord THEN "NotFound"
  ELSE "InvalidTransition"

\* requests whose status is written and whose event is not published yet
AppPublishing == {q \in Procs : pc[q] = "app_publish"}

\* installApp(id), startApp(id), stopApp(id), uninstallApp(id), updateApp(id):
\* the critical section; an accepted request goes on to publish its event
RequestApp(p) ==
  /\ pc[p] = "idle" /\ ~Busy
  /\ op' = [op EXCEPT ![p] = "app"]
  /\ \E a \in Apps, x \in AppActions :
       /\ appArg' = [appArg EXCEPT ![p] = [app |-> a, action |-> x]]
       /\ LET outcome == AppOutcome(appStatus[a], x) IN
          IF outcome = "ok"
          THEN /\ Len(appEvents) + Cardinality(AppPublishing) < MaxEvents
               /\ appStatus' = [appStatus EXCEPT ![a] = NewState(x)]
               /\ pc' = [pc EXCEPT ![p] = "app_publish"]
               /\ UNCHANGED ret
          ELSE /\ Finish(p, outcome)
               /\ UNCHANGED appStatus
  /\ UNCHANGED <<config, status, cache, events, version, gv, fresh, arg, nextSession,
                 userId, tok, rearmed, userCount, loggedOut, owner, appEvents>>

\* the event named after the action is published
AppPublish(p) ==
  /\ pc[p] = "app_publish"
  /\ appEvents' = Append(appEvents, [name |-> appArg[p].action, app |-> appArg[p].app])
  /\ Finish(p, "ok")
  /\ UNCHANGED <<config, status, cache, events, op, version, gv, fresh, arg, nextSession,
                 userId, tok, rearmed, userCount, loggedOut, owner, appStatus, appArg>>

\* the settled statuses the runner writes once the work of an event is done
Settled(name) ==
  CASE name = "install"   -> {"running"}
    [] name = "start"     -> {"running"}
    [] name = "stop"      -> {"stopped"}
    [] name = "uninstall" -> {"missing"}
    [] name = "update"    -> {"running", "stopped"}

\* the runner finishes the oldest published application event
AppSettle ==
  /\ appEvents # <<>>
  /\ appEvents' = Tail(appEvents)
  /\ \E st \in Settled(Head(appEvents).name) :
       appStatus' = [appStatus EXCEPT ![Head(appEvents).app] = st]
  /\ UNCHANGED <<config, status, cache, events, pc, op, version, gv, ret, fresh, arg,
                 nextSession, userId, tok, rearmed, userCount, loggedOut, owner, appArg>>

-----
(* The caller takes the result; the request slot is free again *)

Return(p) ==
  /\ pc[p] = "done" /\ ~Busy
  /\ pc' = [pc EXCEPT ![p] = "idle"]
  /\ op' = [op EXCEPT ![p] = "none"]
  /\ arg' = [arg EXCEPT ![p] = NoSession]
  /\ gv' = [gv EXCEPT ![p] = NoGv]
  /\ ret' = [ret EXCEPT ![p] = "none"]
  /\ fresh' = [fresh EXCEPT ![p] = FALSE]
  /\ userId' = [userId EXCEPT ![p] = Undefined]
  /\ tok' = [tok EXCEPT ![p] = NoToken]
  /\ appArg' = [appArg EXCEPT ![p] = NoAppArg]
  /\ UNCHANGED <<config, status, cache, events, version, nextSession, rearmed, appStatus,
                 appEvents, userCount, loggedOut, owner>>

-----------------------------------------------------------------------------
(* Time *)

\* d seconds pass
Tick(d) ==
  /\ cache' = Age(cache, d)
  /\ cache' # cache
  /\ rearmed' = [k \in SessionIds |->
                   IF rearmed[k] < 0 THEN rearmed[k]
                   ELSE IF rearmed[k] + d > GRACE_TTL THEN GRACE_TTL
                   ELSE rearmed[k] + d]
  /\ UNCHANGED <<config, status, events, pc, op, arg, version, gv, ret, fresh, nextSession,
                 userId, tok, appVars, userCount, loggedOut, owner>>

-----------------------------------------------------------------------------
(* Specification of the system lifecycle service *)

Init ==
  /\ nodeEnv \in {"production", "development"}
  /\ currentVersion \in CurrentVersions
  /\ status = "RUNNING"
  /\ cache = [k \in Keys |-> AbsentEntry]
  /\ events = <<>>
  /\ pc = [p \in Procs |-> "idle"]
  /\ op = [p \in Procs |-> "none"]
  /\ arg = [p \in Procs |-> NoSession]
  /\ version = [p \in Procs |-> Undefined]
  /\ gv = [p \in Procs |-> NoGv]
  /\ ret = [p \in Procs |-> "none"]
  /\ fresh = [p \in Procs |-> FALSE]
  /\ nextSession = 0
  /\ userId = [p \in Procs |-> Undefined]
  /\ tok = [p \in Procs |-> NoToken]
  /\ rearmed = [k \in SessionIds |-> -1]
  /\ appStatus = [a \in Apps |-> NoRecord]
  /\ appEvents = <<>>
  /\ appArg = [p \in Procs |-> NoAppArg]
  /\ userCount = 0
  /\ loggedOut = {}
  /\ owner = [k \in SessionIds |-> 0]

\* the delays after which the cached version is looked at
SystemDelays == {VERSION_TTL - 1, VERSION_TTL}

SystemStep(p) ==
  \/ RequestGetVersion(p)
  \/ GvCacheGet(p)
  \/ GvFetch(p)
  \/ GvCacheSet(p)
  \/ RequestUpdate(p)
  \/ UpdateCheck(p)
  \/ RequestRestart(p)
  \/ RequestStatus(p)
  \/ Publish(p)
  \/ Return(p)

Next ==
  \/ \E p \in Procs : SystemStep(p)
  \/ Settle
  \/ \E d \in SystemDelays : Tick(d)

Spec == Init /\ [][Next]_vars

-----------------------------------------------------------------------------
(* Specification of the session part of the auth service *)

\* the delays after which a session is looked at
AuthDelays == {GRACE_TTL - 1, GRACE_TTL}

AuthInit ==
  /\ Init
  /\ nodeEnv = "production"
  /\ currentVersion = <<"1", ".", "2", ".", "0">>

AuthStep(p) ==
  \/ RequestLogin(p)
  \/ LoginCacheSet(p)
  \/ RequestRegister(p)
  \/ RegisterFindFirst(p)
  \/ RegisterCreate(p)
  \/ RegisterCacheSet(p)
  \/ RequestLogout(p)
  \/ LogoutCacheDel(p)
  \/ RequestRefresh(p)
  \/ RefreshCacheGet(p)
  \/ RefreshRearm(p)
  \/ RefreshCacheSet(p)
  \/ Return(p)

AuthNext ==
  \/ \E p \in Procs : AuthStep(p)
  \/ \E d \in AuthDelays : Tick(d)

AuthSpec == AuthInit /\ [][AuthNext]_vars

-----------------------------------------------------------------------------
(* Specification of the application lifecycle *)

AppStep(p) ==
  \/ RequestApp(p)
  \/ AppPublish(p)
  \/ Return(p)

AppNext ==
  \/ \E p \in Procs : AppStep(p)
  \/ AppSettle

AppInit ==
  /\ Init
  /\ nodeEnv = "production"
  /\ currentVersion = <<"1", ".", "2", ".", "0">>

AppSpec == AppInit /\ [][AppNext]_vars

-----
(* Properties of update and restart *)

Transient == {"UPDATING", "RESTARTING"}

\* request p runs the checks of update in this step
UpdateChecks(p) == pc[p] = "upd_check" /\ pc'[p] # "upd_check"

\* request p is a restart made in this step
RestartRuns(p) == pc[p] = "idle" /\ op'[p] = "restart"

\* C1: in production, an update whose checks run while the status is not
\* RUNNING fails with OperationInProgress, whatever the versions are, and
\* publishes no update event.
C1_UpdateRejectedUnlessRunning ==
  [][\A p \in Procs :
       (UpdateChecks(p) /\ nodeEnv = "production" /\ status # "RUNNING")
         => /\ pc'[p] = "done"
            /\ ret'[p] = "OperationInProgress"
            /\ status' = status]_vars

\* C2: in production, a restart requested while the status is not RUNNING
\* fails with OperationInProgress and leaves the status (UPDATING, say) as it
\* is; only from RUNNING does it write RESTARTING.
C2_RestartOnlyFromRunning ==
  [][\A p \in Procs :
       (RestartRuns(p) /\ nodeEnv = "production" /\ status # "RUNNING")
         => /\ pc'[p] = "done"
            /\ ret'[p] = "OperationInProgress"
            /\ status' = status]_vars

\* request p wrote its transient status and has published, or is about to
\* publish, its event
Succeeded(p) ==
  /\ op[p] \in {"update", "restart"}
  /\ \/ pc[p] = "publish"
     \/ pc[p] = "done" /\ ret[p] = "ok"

\* C3: of the update and restart requests made while the status was RUNNING,
\* with no settlement by the runner since, at most one succeeds and at most
\* one publishes an event.
C3_OneWinner ==
  \A p, q \in Procs : (fresh[p] /\ fresh[q] /\ Succeeded(p) /\ Succeeded(q)) => p = q

\* lexicographic order of <<major, minor, patch>>
TripleLess(x, y) ==
  \/ x[1] < y[1]
  \/ x[1] = y[1] /\ x[2] < y[2]
  \/ x[1] = y[1] /\ x[2] = y[2] /\ x[3] < y[3]

\* C4: in production, with the status RUNNING and latest a version, the
\* checks of update end in exactly the outcome that the order of the two
\* <<major, minor, patch>> triples fixes: equal -> AlreadyUpToDate; current
\* greater -> DowngradeRejected; current less, other major ->
\* MajorVersionMismatch; current less, same major -> the status becomes
\* UPDATING and the request goes on to publish.
C4_OutcomeByVersionOrder ==
  [][\A p \in Procs :
       (/\ UpdateChecks(p)
        /\ nodeEnv = "production"
        /\ status = "RUNNING"
        /\ ~Falsy(gv[p].latest)
        /\ SemverValid(gv[p].latest.str))
         => LET c == SemverParse(gv[p].current)
                l == SemverParse(gv[p].latest.str)
                failed(e) == pc'[p] = "done" /\ ret'[p] = e /\ status' = status
            IN
            IF c = l THEN failed("AlreadyUpToDate")
            ELSE IF TripleLess(l, c) THEN failed("DowngradeRejected")
            ELSE IF c[1] # l[1] THEN failed("MajorVersionMismatch")
            ELSE pc'[p] = "publish" /\ status' = "UPDATING"]_vars

\* C4 witness: an update of 1.2.0 to 1.10.0 has succeeded and the status is UPDATING
C4_Witness ==
  /\ currentVersion = <<"1", ".", "2", ".", "0">>
  /\ status = "UPDATING"
  /\ events = <<"update">>
  /\ \E p \in Procs : op[p] = "update" /\ pc[p] = "done" /\ ret[p] = "ok"

\* C5: in development every update and every restart fails with
\* EnvironmentRestricted, the status stays what it was and no event is
\* published, whatever getVersion returned.
C5_DevelopmentRestricted ==
  nodeEnv = "development"
    => /\ status = "RUNNING"
       /\ events = <<>>
       /\ \A p \in Procs :
            /\ pc[p] # "publish"
            /\ (pc[p] = "done" /\ op[p] \in {"update", "restart"})
                 => ret[p] = "EnvironmentRestricted"

\* C5 witness: in development an update and a restart have both been refused
C5_Witness ==
  /\ nodeEnv = "development"
  /\ \E p, q \in Procs :
       /\ pc[p] = "done" /\ op[p] = "update" /\ ret[p] = "EnvironmentRestricted"
       /\ pc[q] = "done" /\ op[q] = "restart" /\ ret[q] = "EnvironmentRestricted"

\* request p's getVersion returns in this step
GvReturns(p) ==
  /\ pc[p] \in {"gv_get", "gv_fetch", "gv_set"}
  /\ pc'[p] \in {"done", "upd_check"}

\* C6: getVersion always returns to its caller with current taken from the
\* configuration; when the lookup fails, or it returns latest undefined for
\* any other failure, the cache key latestVersion is left as it was.
C6_GetVersionDegrades ==
  [][\A p \in Procs :
       /\ GvReturns(p)
            => /\ gv'[p].current = currentVersion
               /\ (op[p] = "getVersion" => ret'[p] = "ok")
               /\ (~gv'[p].latest.some => cache' = cache)
       /\ (pc[p] = "gv_fetch" /\ pc'[p] \notin {"gv_fetch", "gv_set"})
            => /\ GvReturns(p)
               /\ ~gv'[p].latest.some
               /\ cache' = cache]_vars

\* C6 witness: a getVersion call has returned latest undefined and the cache
\* holds no latestVersion
C6_Witness ==
  /\ ~cache[LatestVersionKey].present
  /\ \E p \in Procs :
       /\ op[p] = "getVersion" /\ pc[p] = "done" /\ ret[p] = "ok"
       /\ gv[p] = [current |-> currentVersion, latest |-> Undefined]

\* C7: in production an update for which getVersion returned no latest
\* version fails with VersionUnavailable; the status stays and no event is
\* published.
C7_VersionUnavailable ==
  [][\A p \in Procs :
       (UpdateChecks(p) /\ nodeEnv = "production" /\ Falsy(gv[p].latest))
         => /\ pc'[p] = "done"
            /\ ret'[p] = "VersionUnavailable"
            /\ status' = status
            /\ events' = events]_vars

\* C7 witness: in production an update has failed with VersionUnavailable
C7_Witness ==
  /\ nodeEnv = "production"
  /\ events = <<>>
  /\ \E p \in Procs : op[p] = "update" /\ pc[p] = "done" /\ ret[p] = "VersionUnavailable"

\* C8: while the cache holds a live latestVersion entry, a getVersion call
\* that reads it performs no external lookup.
C8_NoLookupWhileCached ==
  [][\A p \in Procs :
       (pc[p] = "gv_get" /\ cache[LatestVersionKey].present) => pc'[p] # "gv_fetch"]_vars

\* C9: whenever an event has been published and the runner has not settled
\* it yet, the status is the transient one, never RUNNING.
C9_TransientWhilePublished ==
  events # <<>> => status \in Transient

-----------------------------------------------------------------------------
(* Properties of refreshToken *)

\* a session that refreshToken re-armed r seconds ago, and that was not
\* deleted since, is present with GRACE_TTL - r seconds left while
\* r < GRACE_TTL, and absent from then on
GraceWindow ==
  \A s \in SessionIds :
    rearmed[s] >= 0 =>
      IF rearmed[s] < GRACE_TTL
      THEN cache[s].present /\ cache[s].ttl = GRACE_TTL - rearmed[s]
      ELSE ~cache[s].present

\* C10: refreshing a live session S that maps to user U leaves S mapped to U,
\* now with GRACE_TTL seconds to live, and creates a session S2, different
\* from S and from every session handed out before, which maps to U and for
\* which the token is returned; S then stays present while fewer than
\* GRACE_TTL seconds have passed and is absent once they have.
C10_RefreshRotates ==
  [][/\ \A p \in Procs :
          /\ (pc[p] = "rf_rearm" /\ pc'[p] # "rf_rearm")
               => /\ CacheGet(cache, arg[p]) \in {Undefined, userId[p]}
                  /\ CacheGet(cache', arg[p]) = userId[p]
                  /\ cache'[arg[p]].ttl = GRACE_TTL
                  /\ tok'[p].session \notin Issued \cup {NoSession}
          /\ (pc[p] = "rf_new" /\ pc'[p] # "rf_new")
               => /\ pc'[p] = "done" /\ ret'[p] = "ok"
                  /\ tok'[p] = [id |-> JStr(userId[p].str), session |-> tok[p].session]
                  /\ tok[p].session # arg[p]
                  /\ CacheGet(cache', tok[p].session) = userId[p]
                  /\ cache'[tok[p].session].ttl = NoExpiry
     /\ GraceWindow']_vars

\* C10 witness: a refresh of session s has returned a token for a new
\* session that is in the cache, the grace window of s has elapsed and s is
\* absent
C10_Witness ==
  \E p \in Procs :
    /\ op[p] = "refreshToken" /\ pc[p] = "done" /\ ret[p] = "ok"
    /\ rearmed[arg[p]] = GRACE_TTL
    /\ ~cache[arg[p]].present
    /\ cache[tok[p].session].present

-----------------------------------------------------------------------------
(* Properties of the application lifecycle *)

\* request p enters its critical section in this step
AppRequests(p) == pc[p] = "idle" /\ op'[p] = "app"

\* the unsettled events named x of application a: published ones and those
\* of accepted requests that are about to be published
PendingEvents(a, x) ==
  Cardinality({i \in 1..Len(appEvents) :
                 appEvents[i] = [name |-> x, app |-> a]})
  + Cardinality({q \in Procs :
                   pc[q] = "app_publish" /\ appArg[q] = [app |-> a, action |-> x]})

C12_StopTwice ==
  [][/\ \A p \in Procs :
          (AppRequests(p) /\ appArg'[p].action = "stop")
            => LET a == appArg'[p].app IN
               /\ appStatus[a] = "running"
                    => appStatus'[a] = "stopping" /\ pc'[p] = "app_publish"
               /\ appStatus[a] = "stopping"
                    => /\ pc'[p] = "done" /\ ret'[p] = "InvalidTransition"
                       /\ appStatus'[a] = "stopping"
                       /\ appEvents' = appEvents
     /\ \A a \in Apps :
          /\ PendingEvents(a, "stop")' <= 1
          /\ appStatus'[a] = "stopping" => PendingEvents(a, "stop")' = 1]_vars

\* C12 witness: the second stop of an application came back with
\* InvalidTransition while the application is stopping and the stop event of
\* the first one is published and unsettled
C12_Witness ==
  \E p \in Procs :
    /\ pc[p] = "done" /\ op[p] = "app" /\ ret[p] = "InvalidTransition"
    /\ appArg[p].action = "stop" /\ appStatus[appArg[p].app] = "stopping"
    /\ \E i \in 1..Len(appEvents) :
         appEvents[i] = [name |-> "stop", app |-> appArg[p].app]
    /\ PendingEvents(appArg[p].app, "stop") = 1

-----------------------------------------------------------------------------
(* Properties of the sessions *)

\* request p gets the answer of refreshToken's lookup in this step
RefreshLooksUp(p) == pc[p] = "rf_get" /\ pc'[p] # "rf_get"

\* refreshToken of request p has got past its lookup and succeeds
RefreshSucceeds(p) ==
  op[p] = "refreshToken" /\ (pc[p] = "rf_new" \/ (pc[p] = "done" /\ ret[p] = "ok"))

\* two refreshes of the same session that succeed have tokens for different
\* new sessions, neither of them the old one, with the same user in them
DistinctRotations ==
  \A p, q \in Procs :
    (p # q /\ RefreshSucceeds(p) /\ RefreshSucceeds(q) /\ arg[p] = arg[q])
      => /\ tok[p].session # tok[q].session
         /\ tok[p].session # arg[p] /\ tok[q].session # arg[q]
         /\ tok[p].id = tok[q].id
         /\ userId[p] = userId[q]

\* C13: two refreshToken calls on the same live session S, mapped to user U,
\* both succeed in every interleaving: a lookup that finds S, be it before
\* the other call's rotation or inside the grace window that rotation
\* opened, leads on to the rotation and to a returned token; each call's token is
\* for its own new session, which maps to U when the call returns, and the
\* two new sessions differ.
C13_BothRefreshesSucceed ==
  [][/\ \A p \in Procs :
          /\ RefreshLooksUp(p)
               => /\ cache[arg[p]].present
                       => /\ pc'[p] = "rf_rearm"
                          /\ userId'[p] = Some(cache[arg[p]].val)
                  /\ (arg[p] \in SessionIds /\ rearmed[arg[p]] \in 0..(GRACE_TTL - 1))
                       => pc'[p] = "rf_rearm"
          /\ pc[p] = "rf_rearm" => pc'[p] \in {"rf_rearm", "rf_new"}
          /\ pc[p] = "rf_new"
               => \/ pc'[p] = "rf_new"
                  \/ /\ pc'[p] = "done" /\ ret'[p] = "ok"
                     /\ CacheGet(cache', tok'[p].session) = userId[p]
     /\ DistinctRotations']_vars

\* C13 witness: two refreshes of the same session have both returned, with
\* tokens for two different new sessions that both map to the user of the
\* old one
C13_Witness ==
  \E p, q \in Procs :
    /\ p # q /\ arg[p] = arg[q]
    /\ op[p] = "refreshToken" /\ pc[p] = "done" /\ ret[p] = "ok"
    /\ op[q] = "refreshToken" /\ pc[q] = "done" /\ ret[q] = "ok"
    /\ tok[p].session # tok[q].session
    /\ CacheGet(cache, tok[p].session) = CacheGet(cache, tok[q].session)
    /\ CacheGet(cache, tok[p].session) = Some(NumToStr(owner[arg[p]]))

\* C14: refreshToken called with no session, or with a session identifier
\* that is absent from the cache (never issued, logged out, or expired),
\* returns null, creates no session and changes no cache entry, and does
\* nothing after it returned.
C14_RefreshOfAbsentSession ==
  [][\A p \in Procs :
       /\ (pc[p] = "idle" /\ op'[p] = "refreshToken" /\ arg'[p] = NoSession)
            => /\ pc'[p] = "done" /\ ret'[p] = "null"
               /\ cache' = cache /\ nextSession' = nextSession
       /\ (RefreshLooksUp(p) /\ ~cache[arg[p]].present)
            => /\ pc'[p] = "done" /\ ret'[p] = "null"
               /\ cache' = cache /\ nextSession' = nextSession
       /\ (op[p] = "refreshToken" /\ pc[p] = "done" /\ ret[p] = "null")
            => pc'[p] \in {"done", "idle"}]_vars

\* C14 witness: refreshToken has returned null for a session that was logged
\* out and for a session whose grace window ran out
C14_Witness ==
  \E p, q \in Procs :
    /\ op[p] = "refreshToken" /\ pc[p] = "done" /\ ret[p] = "null"
    /\ arg[p] \in loggedOut /\ ~cache[arg[p]].present
    /\ op[q] = "refreshToken" /\ pc[q] = "done" /\ ret[q] = "null"
    /\ arg[q] \in SessionIds /\ rearmed[arg[q]] = GRACE_TTL /\ ~cache[arg[q]].present

\* C15: logout(S) removes S and leaves every other cache entry as it was;
\* logout without a session changes nothing and returns true; a refreshToken
\* of S whose lookup comes after a logout of S returned yields null.
C15_LogoutRemoves ==
  [][\A p \in Procs :
       /\ (pc[p] = "lo_del" /\ pc'[p] # "lo_del")
            => /\ pc'[p] = "done" /\ ret'[p] = "ok"
               /\ ~cache'[arg[p]].present
               /\ \A k \in Keys \ {arg[p]} : cache'[k] = cache[k]
       /\ (pc[p] = "idle" /\ op'[p] = "logout" /\ arg'[p] = NoSession)
            => /\ pc'[p] = "done" /\ ret'[p] = "ok"
               /\ cache' = cache
       /\ (RefreshLooksUp(p) /\ arg[p] \in loggedOut)
            => pc'[p] = "done" /\ ret'[p] = "null"]_vars

\* C16: once a logout of S has returned, S is absent from the cache in every
\* later state, whatever refreshToken calls on S run alongside.
C16_LogoutFinal == \A s \in loggedOut : ~cache[s].present

\* C17: once refreshToken has re-armed S, nothing lengthens the time S has
\* left: while S stays present its remaining lifetime never grows, so S is
\* gone one grace window after the first refresh.
C17_WindowNotExtended ==
  [][\A s \in SessionIds :
       (rearmed[s] >= 0 /\ cache[s].present /\ cache'[s].present)
         => cache'[s].ttl # NoExpiry /\ cache'[s].ttl <= cache[s].ttl]_vars

\* every session in the cache maps to the user who started its chain, and
\* that user is in the database
BoundToOwner ==
  \A s \in SessionIds :
    cache[s].present => owner[s] \in DbUsers /\ cache[s].val = NumToStr(owner[s])

\* C18: after any sequence of login, register, refreshToken and logout every
\* session in the cache maps to the user whose login or registration started
\* its chain; no operation changes the user a session in the cache maps to;
\* the id in a returned token is the user its session maps to.
C18_SessionUserBinding ==
  [][/\ BoundToOwner'
     /\ \A s \in SessionIds :
          (cache[s].present /\ cache'[s].present) => cache'[s].val = cache[s].val
     /\ \A p \in Procs :
          /\ (pc[p] \in {"li_set", "rg_set"} /\ pc'[p] # pc[p])
               => /\ pc'[p] = "done" /\ ret'[p] = "ok"
                  /\ tok'[p].id.type = "number"
                  /\ CacheGet(cache', tok'[p].session) = Some(NumToStr(tok'[p].id.num))
                  /\ tok'[p].id.num = owner'[tok'[p].session]
          /\ (pc[p] = "rf_new" /\ pc'[p] # pc[p])
               => /\ pc'[p] = "done" /\ ret'[p] = "ok"
                  /\ tok'[p].id.type = "string"
                  /\ CacheGet(cache', tok'[p].session) = Some(tok'[p].id.str)
                  /\ tok'[p].id.str = NumToStr(owner'[tok'[p].session])
                  /\ owner'[tok'[p].session] = owner'[arg'[p]]]_vars

\* C18 witness: two users have sessions in the cache, and a refresh of one
\* of them has returned a token for a new session of the same user
C18_Witness ==
  \E p \in Procs, s \in SessionIds :
    /\ op[p] = "refreshToken" /\ pc[p] = "done" /\ ret[p] = "ok"
    /\ cache[tok[p].session].present /\ cache[s].present
    /\ owner[tok[p].session] = owner[arg[p]]
    /\ owner[s] # owner[arg[p]]

-----------------------------------------------------------------------------
(* Properties of the events and of the status writes *)

\* the update or restart of request p returns in this step
LifecycleReturns(p) ==
  op'[p] \in {"update", "restart"} /\ pc[p] # "done" /\ pc'[p] = "done"

\* request p writes the status in this step
WritesStatus(p) == pc[p] # "publish" /\ pc'[p] = "publish"

\* the runner settles an event in this step
RunnerSettles == pc' = pc /\ events # <<>> /\ events' = Tail(events)

\* C19: over any sequence of update and restart requests, a call that
\* succeeds publishes exactly one event, named after its action, in the step
\* in which it returns; a call that fails publishes none and leaves the
\* status as it was; the events change in no other step of the core.
C19_OneEventPerCall ==
  [][/\ \A p \in Procs :
          /\ LifecycleReturns(p)
               => IF ret'[p] = "ok"
                  THEN pc[p] = "publish" /\ events' = Append(events, op'[p])
                  ELSE events' = events /\ status' = status
          /\ pc[p] = "publish"
               => \/ pc'[p] = "publish"
                  \/ pc'[p] = "done" /\ ret'[p] = "ok"
     /\ events' # events
          => \/ \E p \in Procs : LifecycleReturns(p) /\ ret'[p] = "ok"
             \/ RunnerSettles
     /\ status' # status
          => \/ \E p \in Procs : WritesStatus(p) /\ events' = events
             \/ RunnerSettles]_vars

\* C19 witness: a restart or update has returned true and its event is the
\* only one published, while an update has failed
C19_Witness ==
  \E p, q \in Procs :
    /\ op[p] \in {"update", "restart"} /\ pc[p] = "done" /\ ret[p] = "ok"
    /\ op[q] = "update" /\ pc[q] = "done" /\ ret[q] \notin {"ok", "none"}
    /\ events = <<op[p]>>

\* C20: the status is always one of RUNNING, UPDATING and RESTARTING; the
\* core writes the status only in update, which writes UPDATING, and in
\* restart, which writes RESTARTING, so it never writes RUNNING; getVersion
\* and status never change the status.
C20_CoreWritesTransientOnly ==
  [][/\ status' \in SYSTEM_STATUS
     /\ ~RunnerSettles
          => /\ \A p \in Procs :
                  /\ WritesStatus(p)
                       => /\ op'[p] \in {"update", "restart"}
                          /\ status' = (IF op'[p] = "update" THEN "UPDATING"
                                        ELSE "RESTARTING")
                  /\ (op'[p] \in {"getVersion", "status"} /\ pc'[p] # pc[p])
                       => status' = status
             /\ (\A p \in Procs : ~WritesStatus(p)) => status' = status]_vars

\* C20 witness: status() has returned UPDATING, written by an update that
\* has returned true
C20_Witness ==
  \E p, q \in Procs :
    /\ op[p] = "status" /\ pc[p] = "done" /\ ret[p] = "UPDATING"
    /\ op[q] = "update" /\ pc[q] = "done" /\ ret[q] = "ok"
    /\ status = "UPDATING"

====
